---- MODULE Spec2Model ----
(***************************************************************************)
(* Model of scripts/fix_dates.py: the date normaliser fix_date and the     *)
(* record pass of main (dedup, validation, normalisation, fallback, write).*)
(* A Python str is a sequence of one-character strings; a JSON object is a *)
(* function whose DOMAIN is the set of fields that are present.            *)
(***************************************************************************)
EXTENDS Integers, Sequences, FiniteSets, TLC

VARIABLES inFile,      \* parsed content of configs/cve_seed_extended.json
          outFile,     \* state and content of configs/cve_seed_final.json
          stdout,      \* the N of every printed line "Fixed N CVEs"
          data,        \* main: data (items are mutated in place)
          i,           \* main: number of items the for loop has consumed
          clean_data,  \* main: clean_data
          seen_ids,    \* main: seen_ids
          pc,          \* position of main
          fault,       \* the unhandled exception that ended the run, if any
          arg,         \* argument of a direct call of fix_date
          res1,        \* fix_date(arg)
          res2,        \* fix_date(fix_date(arg))
          fpc          \* position of the direct caller of fix_date

vars == <<inFile, outFile, stdout, data, i, clean_data, seen_ids, pc, fault,
          arg, res1, res2, fpc>>

mainVars == <<inFile, outFile, stdout, data, i, clean_data, seen_ids, pc, fault>>
fixVars == <<arg, res1, res2, fpc>>

----------------------------------------------------------------------------
(* Bounds *)

\* longest input list of records
MaxRecords == 2
\* longest direct argument of fix_date, counted in tokens of Tokens
MaxTokens == 3

----------------------------------------------------------------------------
(* Python values *)

\* None: what dict.get returns for an absent key; no str equals it
None == <<"None">>

\* truth test "not v" on a str or None
Falsy(v) == v = None \/ v = <<>>

Digits == {"0", "1", "2", "3", "4", "5", "6", "7", "8", "9"}

\* str.endswith
EndsWith(s, suf) ==
    /\ Len(s) >= Len(suf)
    /\ SubSeq(s, Len(s) - Len(suf) + 1, Len(s)) = suf

\* [+-]\d{2}:\d{2} matches the six characters of s that end at position e
OffsetAt(s, e) ==
    /\ e >= 6
    /\ e <= Len(s)
    /\ s[e - 5] \in {"+", "-"}
    /\ s[e - 4] \in Digits
    /\ s[e - 3] \in Digits
    /\ s[e - 2] = ":"
    /\ s[e - 1] \in Digits
    /\ s[e] \in Digits

\* $ (no MULTILINE flag) matches after position e: at the end of s, or just
\* before a newline that is the last character of s
DollarAt(s, e) ==
    \/ e = Len(s)
    \/ e = Len(s) - 1 /\ s[Len(s)] = "\n"

\* re.search(r"[+-]\d{2}:\d{2}$", s) finds a match
SearchOffset(s) == \E e \in 6..Len(s) : OffsetAt(s, e) /\ DollarAt(s, e)

\* the suffix ".000"
Dot000 == <<".", "0", "0", "0">>

\* fix_date without the appended "Z" after stripping ".000"
fix_date_strip_only(v) ==
    IF Falsy(v) THEN v
    ELSE IF EndsWith(v, <<"Z">>) \/ SearchOffset(v) THEN v
    ELSE IF EndsWith(v, Dot000) THEN SubSeq(v, 1, Len(v) - 4)
    ELSE v \o <<"Z">>

\* lines 5-17: the rules in the order of the code
fix_date(v) ==
    IF Falsy(v) THEN v
    ELSE IF EndsWith(v, <<"Z">>) \/ SearchOffset(v) THEN v
    ELSE IF EndsWith(v, Dot000) THEN SubSeq(v, 1, Len(v) - 4) \o <<"Z">>
    ELSE v \o <<"Z">>

----------------------------------------------------------------------------
(* JSON objects *)

\* item.get(k): the value of field k, None when the field is absent
Get(item, k) == IF k \in DOMAIN item THEN item[k] ELSE None

\* item[k] = v: sets field k, adding it when absent
SetItem(item, k, v) == [x \in DOMAIN item \cup {k} |-> IF x = k THEN v ELSE item[x]]

----------------------------------------------------------------------------
(* Inputs *)

Ids == {"CVE-1", "CVE-2"}

\* a naive timestamp, one with a zero-millisecond suffix, and an offset
\* followed by a line feed (JSON "...+00:00\n")
Naive == <<"T">>
Millis == <<"T", ".", "0", "0", "0">>
OffsetLF == <<"+", "0", "0", ":", "0", "0", "\n">>

PubVals == {<<>>, Naive, OffsetLF}
ModVals == {<<>>, Millis}
Severities == {"HIGH", "LOW"}

\* an optional field: no value or one value of S
Opt(S) == {{}} \cup {{v} : v \in S}

\* the object with field k when opt holds a value, the empty object otherwise
Field(k, opt) == [x \in {y \in {k} : opt # {}} |-> CHOOSE v \in opt : TRUE]

\* records that have a cve_id
KeyedRecords ==
    {Field("cve_id", {id}) @@ Field("published_date", p)
        @@ Field("last_modified", l) @@ Field("severity", {s}) :
        id \in Ids, p \in Opt(PubVals), l \in Opt(ModVals), s \in Severities}

\* records that lack the cve_id field
UnkeyedRecords ==
    {Field("published_date", p) @@ Field("severity", {"HIGH"}) :
        p \in Opt({Naive})}

Records == KeyedRecords \cup UnkeyedRecords

RecordLists == UNION {[1..n -> Records] : n \in 0..MaxRecords}

\* pieces the direct arguments of fix_date are built from
Tokens == {<<"Z">>, <<"z">>, <<"T">>, <<"0">>, <<":">>, <<"+">>, <<".">>,
           <<"\n">>, Dot000,
           <<"+", "0", "5", ":", "0", "0">>, <<"-", "0", "0", ":", "3", "0">>}

RECURSIVE Concat(_)
Concat(ts) == IF ts = <<>> THEN <<>> ELSE Head(ts) \o Concat(Tail(ts))

InputStrings ==
    {Concat(ts) : ts \in UNION {[1..n -> Tokens] : n \in 0..MaxTokens}}

----------------------------------------------------------------------------
(* main *)

Prior == [status |-> "prior", content |-> <<>>]

\* the item of the current iteration
item == data[i + 1]

\* an add that is lost
MarkSeenLost(seen, id) == seen
\* seen_ids.add(id)
MarkSeen(seen, id) == seen \cup {id}

\* a validation that only asks for the field to be present
ValidPresentOnly(it) == "published_date" \in DOMAIN it
\* line 32: the record passes when "not item.get('published_date')" is false
Valid(it) == ~Falsy(Get(it, "published_date"))

\* normalisation that leaves an empty last_modified as it is
NormalizeNoFallback(it) ==
    LET a == SetItem(it, "published_date", fix_date(Get(it, "published_date")))
    IN  SetItem(a, "last_modified", fix_date(Get(a, "last_modified")))

\* normalisation that rebuilds the record from the three known fields
NormalizeKnownFields(it) ==
    LET pd == fix_date(Get(it, "published_date"))
        lm == fix_date(Get(it, "last_modified"))
    IN  [cve_id |-> it["cve_id"], published_date |-> pd,
         last_modified |-> IF Falsy(lm) THEN pd ELSE lm]

\* lines 35-40: both dates normalised, then the last_modified fallback
Normalize(it) ==
    LET a == SetItem(it, "published_date", fix_date(Get(it, "published_date")))
        b == SetItem(a, "last_modified", fix_date(Get(a, "last_modified")))
    IN  IF Falsy(b["last_modified"])
        THEN SetItem(b, "last_modified", b["published_date"])
        ELSE b

\* clean_data.insert(0, it)
EmitFirst(out, it) == <<it>> \o out
\* clean_data.append(it)
Emit(out, it) == Append(out, it)

Init ==
    /\ inFile \in RecordLists
    /\ outFile = Prior
    /\ stdout = <<>>
    /\ data = <<>>
    /\ i = 0
    /\ clean_data = <<>>
    /\ seen_ids = {}
    /\ pc = "load"
    /\ fault = "none"
    /\ arg = <<>>
    /\ res1 = None
    /\ res2 = None
    /\ fpc = "idle"

\* json.load of the input file
Load ==
    /\ pc = "load"
    /\ data' = inFile
    /\ pc' = "loop"
    /\ UNCHANGED <<inFile, outFile, stdout, i, clean_data, seen_ids, fault>>
    /\ UNCHANGED fixVars

\* the input file is missing or unreadable
LoadFail ==
    /\ pc = "load"
    /\ pc' = "fault"
    /\ fault' = "OSError"
    /\ UNCHANGED <<inFile, outFile, stdout, data, i, clean_data, seen_ids>>
    /\ UNCHANGED fixVars

\* a missing cve_id that is skipped instead of raising
MissingIdIgnored ==
    /\ pc = "loop"
    /\ i < Len(data)
    /\ "cve_id" \notin DOMAIN item
    /\ i' = i + 1
    /\ UNCHANGED <<inFile, outFile, stdout, data, clean_data, seen_ids, pc, fault>>
    /\ UNCHANGED fixVars
\* line 27: item["cve_id"] on an item without the field raises KeyError
MissingId ==
    /\ pc = "loop"
    /\ i < Len(data)
    /\ "cve_id" \notin DOMAIN item
    /\ pc' = "fault"
    /\ fault' = "KeyError"
    /\ UNCHANGED <<inFile, outFile, stdout, data, i, clean_data, seen_ids>>
    /\ UNCHANGED fixVars

\* lines 27-28: the id was seen before
SkipDuplicate ==
    /\ pc = "loop"
    /\ i < Len(data)
    /\ "cve_id" \in DOMAIN item
    /\ item["cve_id"] \in seen_ids
    /\ i' = i + 1
    /\ UNCHANGED <<inFile, outFile, stdout, data, clean_data, seen_ids, pc, fault>>
    /\ UNCHANGED fixVars

\* the invalid record skipped before its id is marked as seen
SkipInvalidUnmarked ==
    /\ pc = "loop"
    /\ i < Len(data)
    /\ "cve_id" \in DOMAIN item
    /\ item["cve_id"] \notin seen_ids
    /\ ~Valid(item)
    /\ i' = i + 1
    /\ UNCHANGED <<inFile, outFile, stdout, data, clean_data, seen_ids, pc, fault>>
    /\ UNCHANGED fixVars
\* lines 29-33: a new id is marked, the record has no published_date
SkipInvalid ==
    /\ pc = "loop"
    /\ i < Len(data)
    /\ "cve_id" \in DOMAIN item
    /\ item["cve_id"] \notin seen_ids
    /\ seen_ids' = MarkSeen(seen_ids, item["cve_id"])
    /\ ~Valid(item)
    /\ i' = i + 1
    /\ UNCHANGED <<inFile, outFile, stdout, data, clean_data, pc, fault>>
    /\ UNCHANGED fixVars

\* lines 29-42: a new id is marked, the record is normalised and appended
NormalizeAndAppend ==
    /\ pc = "loop"
    /\ i < Len(data)
    /\ "cve_id" \in DOMAIN item
    /\ item["cve_id"] \notin seen_ids
    /\ seen_ids' = MarkSeen(seen_ids, item["cve_id"])
    /\ Valid(item)
    /\ data' = [data EXCEPT ![i + 1] = Normalize(item)]
    /\ clean_data' = Emit(clean_data, Normalize(item))
    /\ i' = i + 1
    /\ UNCHANGED <<inFile, outFile, stdout, pc, fault>>
    /\ UNCHANGED fixVars

\* the for loop is exhausted
EndLoop ==
    /\ pc = "loop"
    /\ i = Len(data)
    /\ pc' = "open"
    /\ UNCHANGED <<inFile, outFile, stdout, data, i, clean_data, seen_ids, fault>>
    /\ UNCHANGED fixVars

\* open(..., "w"): the output file is created or truncated
OpenOut ==
    /\ pc = "open"
    /\ outFile' = [status |-> "truncated", content |-> <<>>]
    /\ pc' = "dump"
    /\ UNCHANGED <<inFile, stdout, data, i, clean_data, seen_ids, fault>>
    /\ UNCHANGED fixVars

\* open(..., "w") when the directory configs is missing
OpenOutFail ==
    /\ pc = "open"
    /\ pc' = "fault"
    /\ fault' = "OSError"
    /\ UNCHANGED <<inFile, outFile, stdout, data, i, clean_data, seen_ids>>
    /\ UNCHANGED fixVars

\* json.dump and the close at the end of the with block
Dump ==
    /\ pc = "dump"
    /\ outFile' = [status |-> "written", content |-> clean_data]
    /\ pc' = "print"
    /\ UNCHANGED <<inFile, stdout, data, i, clean_data, seen_ids, fault>>
    /\ UNCHANGED fixVars

\* print(f"Fixed {len(clean_data)} CVEs")
PrintCount ==
    /\ pc = "print"
    /\ stdout' = Append(stdout, Len(clean_data))
    /\ pc' = "done"
    /\ UNCHANGED <<inFile, outFile, data, i, clean_data, seen_ids, fault>>
    /\ UNCHANGED fixVars

Next ==
    \/ Load
    \/ LoadFail
    \/ MissingId
    \/ SkipDuplicate
    \/ SkipInvalid
    \/ NormalizeAndAppend
    \/ EndLoop
    \/ OpenOut
    \/ OpenOutFail
    \/ Dump
    \/ PrintCount

Spec == Init /\ [][Next]_vars

----------------------------------------------------------------------------
(* direct calls of fix_date *)

InitFix ==
    /\ inFile = <<>>
    /\ outFile = Prior
    /\ stdout = <<>>
    /\ data = <<>>
    /\ i = 0
    /\ clean_data = <<>>
    /\ seen_ids = {}
    /\ pc = "idle"
    /\ fault = "none"
    /\ arg \in InputStrings \cup {None}
    /\ res1 = None
    /\ res2 = None
    /\ fpc = "call"

\* r = fix_date(arg)
CallFix ==
    /\ fpc = "call"
    /\ res1' = fix_date(arg)
    /\ fpc' = "again"
    /\ UNCHANGED <<arg, res2>>
    /\ UNCHANGED mainVars

\* fix_date(r)
CallFixAgain ==
    /\ fpc = "again"
    /\ res2' = fix_date(res1)
    /\ fpc' = "end"
    /\ UNCHANGED <<arg, res1>>
    /\ UNCHANGED mainVars

NextFix == CallFix \/ CallFixAgain

SpecFix == InitFix /\ [][NextFix]_vars

----------------------------------------------------------------------------
(* Vocabulary of the properties, stated on the input file *)

\* the record has a published_date that is a non-empty string
NonEmptyPd(rec) == "published_date" \in DOMAIN rec /\ rec["published_date"] # <<>>

\* no earlier record of the input file has the cve_id of record j
FirstOcc(j) ==
    \A k \in 1..(j - 1) :
        "cve_id" \in DOMAIN inFile[k] => inFile[k]["cve_id"] # inFile[j]["cve_id"]

\* record j of the input file is the first of its id and has a published_date
Survives(j) ==
    /\ "cve_id" \in DOMAIN inFile[j]
    /\ FirstOcc(j)
    /\ NonEmptyPd(inFile[j])

\* the surviving records among the first n of the input file, in input order
RECURSIVE SurvivorIdx(_)
SurvivorIdx(n) ==
    IF n = 0 THEN <<>>
    ELSE IF Survives(n) THEN Append(SurvivorIdx(n - 1), n)
    ELSE SurvivorIdx(n - 1)

\* the input records with no cve_id field
Unkeyed == {j \in 1..Len(inFile) : "cve_id" \notin DOMAIN inFile[j]}

Min(S) == CHOOSE x \in S : \A y \in S : x <= y

\* s ends with "Z" or its last six characters are sign, 2 digits, ":", 2 digits
EndsQualified(s) == EndsWith(s, <<"Z">>) \/ OffsetAt(s, Len(s))

\* the four rules of the Date Normalizer, read on the last characters of v
RuleResult(v) ==
    IF v = None \/ v = <<>> THEN v
    ELSE IF EndsQualified(v) THEN v
    ELSE IF EndsWith(v, Dot000) THEN SubSeq(v, 1, Len(v) - 4) \o <<"Z">>
    ELSE v \o <<"Z">>

----------------------------------------------------------------------------
(* C1 *)

\* C1: at every point of the record pass, after each iteration as well as at
\* the end, no two records of clean_data have the same cve_id, and the same
\* holds of what is written to the output file.
C1_NoDuplicateIds ==
    /\ \A a, b \in 1..Len(clean_data) :
          a # b => clean_data[a]["cve_id"] # clean_data[b]["cve_id"]
    /\ \A a, b \in 1..Len(outFile.content) :
          a # b => outFile.content[a]["cve_id"] # outFile.content[b]["cve_id"]

\* two valid records with one id were read and one record was written
C1_Witness ==
    /\ pc = "done"
    /\ Len(inFile) = 2
    /\ Unkeyed = {}
    /\ inFile[1]["cve_id"] = inFile[2]["cve_id"]
    /\ NonEmptyPd(inFile[1])
    /\ NonEmptyPd(inFile[2])
    /\ Len(outFile.content) = 1

(* C2 *)

\* C2: for every record j the loop has consumed, the output holds a record
\* with the id of j exactly when the first input record with that id has a
\* non-empty published_date, and that output record is the first one (its
\* severity and its normalised published_date); so a first occurrence with an
\* empty or absent published_date suppresses every later record of its id.
C2_FirstOccurrenceDecides ==
    \A j \in 1..i :
        LET id == inFile[j]["cve_id"]
            f == Min({k \in 1..j : inFile[k]["cve_id"] = id})
            outs == {k \in 1..Len(clean_data) : clean_data[k]["cve_id"] = id}
        IN  /\ (outs # {}) <=> NonEmptyPd(inFile[f])
            /\ \A k \in outs :
                  /\ clean_data[k]["severity"] = inFile[f]["severity"]
                  /\ clean_data[k]["published_date"]
                        = fix_date(inFile[f]["published_date"])

\* an id whose first record has no date and whose second record is valid,
\* and the run wrote nothing for it
C2_Witness ==
    /\ pc = "done"
    /\ Len(inFile) = 2
    /\ Unkeyed = {}
    /\ inFile[1]["cve_id"] = inFile[2]["cve_id"]
    /\ ~NonEmptyPd(inFile[1])
    /\ NonEmptyPd(inFile[2])
    /\ outFile.content = <<>>

(* C3 *)

\* C3: in every record of clean_data, published_date and last_modified end
\* with "Z" or have a sign, two digits, ":", two digits as their last six
\* characters.
C3_FormatGuarantee ==
    \A k \in 1..Len(clean_data) :
        /\ EndsQualified(clean_data[k]["published_date"])
        /\ EndsQualified(clean_data[k]["last_modified"])

(* C4 *)

\* C4: every output record has a non-empty last_modified; when the input
\* record had an empty or absent last_modified it equals the output
\* published_date, otherwise it is the normalisation of the input
\* last_modified.
C4_FallbackLaw ==
    LET S == SurvivorIdx(i)
    IN  /\ Len(clean_data) = Len(S)
        /\ \A k \in 1..Len(clean_data) :
              LET o == clean_data[k]
                  src == inFile[S[k]]
                  empty == \/ "last_modified" \notin DOMAIN src
                           \/ src["last_modified"] = <<>>
              IN  /\ "last_modified" \in DOMAIN o
                  /\ o["last_modified"] # <<>>
                  /\ o["last_modified"] # None
                  /\ empty => o["last_modified"] = o["published_date"]
                  /\ ~empty => o["last_modified"] = fix_date(src["last_modified"])

\* one written record took the fallback and another kept its own
\* last_modified, different from its published_date
C4_Witness ==
    /\ pc = "done"
    /\ Len(outFile.content) = 2
    /\ "last_modified" \notin DOMAIN inFile[1]
    /\ outFile.content[1]["last_modified"] = outFile.content[1]["published_date"]
    /\ "last_modified" \in DOMAIN inFile[2]
    /\ inFile[2]["last_modified"] # <<>>
    /\ outFile.content[2]["last_modified"] # outFile.content[2]["published_date"]

(* C5 *)

\* C5: fix_date applied to its own result returns that result.
C5_Idempotent == fpc = "end" => res2 = res1

\* both calls were made on an argument that the first call changed by
\* replacing a zero-millisecond suffix
C5_Witness ==
    /\ fpc = "end"
    /\ arg # None
    /\ EndsWith(arg, Dot000)
    /\ Len(arg) > 4
    /\ res1 # arg

(* C6 *)

\* C6: clean_data is the list of the surviving records (first of its id,
\* non-empty published_date) among the consumed ones, each once, in input
\* order; the written file holds the same list.
C6_OrderPreserved ==
    LET S == SurvivorIdx(i)
    IN  /\ Len(clean_data) = Len(S)
        /\ \A k \in 1..Len(S) :
              /\ clean_data[k]["cve_id"] = inFile[S[k]]["cve_id"]
              /\ clean_data[k]["severity"] = inFile[S[k]]["severity"]
        /\ \A a, b \in 1..Len(S) : a < b => S[a] < S[b]
        /\ outFile.status = "written" => outFile.content = clean_data

\* two records with different ids were written
C6_Witness ==
    /\ pc = "done"
    /\ Len(outFile.content) = 2
    /\ outFile.content[1]["cve_id"] # outFile.content[2]["cve_id"]

(* C7 *)

\* what holds at every point of a run whose input has a record without cve_id
C7_Safe ==
    Unkeyed # {} =>
        /\ pc \in {"load", "loop", "fault"}
        /\ i < Min(Unkeyed)
        /\ outFile = Prior
        /\ stdout = <<>>
        /\ (pc = "fault" /\ data # <<>>) => (fault = "KeyError" /\ i + 1 = Min(Unkeyed))

\* the loop is at a record without cve_id
C7_AtUnkeyed ==
    /\ pc = "loop"
    /\ i < Len(data)
    /\ "cve_id" \notin DOMAIN item

\* the step ends the run with the fault of the failed field access
C7_Faults ==
    /\ pc' = "fault"
    /\ fault' = "KeyError"
    /\ clean_data' = clean_data

\* C7: when a record of the input lacks cve_id, the step that reaches the
\* first such record ends the run in a fault, no run gets past it, and the
\* output file keeps its prior content and nothing is printed, however many
\* records were processed before.
C7_MissingIdIsFatal == [][(C7_AtUnkeyed => C7_Faults) /\ C7_Safe']_vars

\* the fault was raised after a valid record had been appended
C7_Witness ==
    /\ pc = "fault"
    /\ fault = "KeyError"
    /\ Len(clean_data) = 1
    /\ i = 1

(* C8 *)

\* the current record has no published_date or an empty one
C8_DatelessItem ==
    /\ pc = "loop"
    /\ i < Len(data)
    /\ ~NonEmptyPd(item)

\* the iteration moves on and leaves the output and the status alone
C8_Skipped ==
    /\ pc' = "loop"
    /\ fault' = "none"
    /\ i' = i + 1
    /\ clean_data' = clean_data

\* every record of the output has a date, and the printed count is the
\* number of records written
C8_Counted ==
    /\ \A k \in 1..Len(clean_data) : NonEmptyPd(clean_data[k])
    /\ pc = "done" => /\ stdout = <<Len(outFile.content)>>
                      /\ Len(outFile.content) = Len(SurvivorIdx(Len(inFile)))

\* C8 as stated: every record with an absent or empty published_date is
\* skipped without a fault, is not in the output and is not counted.
C8_Original == [][(C8_DatelessItem => C8_Skipped) /\ C8_Counted']_vars

\* C8: a record that has a cve_id and an absent or empty published_date is
\* skipped without a fault: the loop goes on to the next record, the output
\* is left alone, the printed count is the number of records written, and
\* every output record has a non-empty published_date.
C8_DatelessSkipped ==
    [][((C8_DatelessItem /\ "cve_id" \in DOMAIN item) => C8_Skipped)
        /\ C8_Counted']_vars

\* a dateless record was skipped, a later one was written, the count is 1
C8_Witness ==
    /\ pc = "done"
    /\ Len(inFile) = 2
    /\ Unkeyed = {}
    /\ ~NonEmptyPd(inFile[1])
    /\ stdout = <<1>>
    /\ Len(outFile.content) = 1

(* C9 *)

\* C9: an output record has the fields of its input record and
\* last_modified, no other, and every field other than the two dates has the
\* value it had in the input.
C9_Frame ==
    LET S == SurvivorIdx(i)
    IN  /\ Len(clean_data) = Len(S)
        /\ \A k \in 1..Len(clean_data) :
              LET o == clean_data[k]
                  src == inFile[S[k]]
              IN  /\ DOMAIN o = DOMAIN src \cup {"last_modified"}
                  /\ \A f \in DOMAIN src \ {"published_date", "last_modified"} :
                        o[f] = src[f]

\* a record without last_modified and with severity LOW was written
C9_Witness ==
    /\ pc = "done"
    /\ Len(outFile.content) = 1
    /\ Len(inFile) = 1
    /\ "last_modified" \notin DOMAIN inFile[1]
    /\ outFile.content[1]["severity"] = "LOW"

(* C10 *)

\* C10: the result of fix_date is the one of the first rule that applies:
\* empty or absent unchanged; ending in "Z" or in an offset unchanged;
\* ending in ".000" stripped of it and "Z" appended; otherwise "Z" appended.
C10_RulesInOrder == fpc # "call" => res1 = RuleResult(arg)

====
